---- MODULE Spec2Model ----
(***************************************************************************)
(* Model of the fhirrest Terraform provider's fhir_resource engine:        *)
(* FhirResource.Create / Read / Update / Delete, persistFhirResource,      *)
(* readFileContent, ReadFhirResource and FhirResourceDataSource.Read.      *)
(*                                                                         *)
(* Strings are sequences of tokens; the token "/" is the character the     *)
(* code formats with ("%s/%s") and splits on (strings.Split(.., "/")).     *)
(* A byte string holding JSON is a record (valid, form, val): whether it   *)
(* parses, how it is laid out, and the value it parses to.                 *)
(***************************************************************************)
EXTENDS Integers, Sequences, FiniteSets, TLC

VARIABLES
    fhirResourceSettings,  \* FhirResource.fhirResourceSettings, shared by all invocations
    state,                 \* the host's stored FhirResourceModel of one resource
    dsState,               \* the host's stored FhirResourceDataSourceModel.Resource
    remote,                \* what each FHIR server stores
    call,                  \* the handler invocation that ran last: inputs and outcome
    calls,                 \* number of handler invocations so far
    inv                    \* concurrent invocations: per goroutine, position, inputs and locals

vars == <<fhirResourceSettings, state, dsState, remote, call, calls, inv>>

-----------------------------------------------------------------------------
(* Bounds *)

MaxCalls == 2
NumProcs == 2

-----------------------------------------------------------------------------
(* Strings *)

Slash == "/"
\* a control character: net/url rejects any URL that contains one
CTL == "\t"
\* what fmt's %s verb prints for an operand that is no string, such as the
\* float64 of a JSON number: "%!s(float64=5)"
BadVerb == "%!s(float64=5)"

EmptyString == << >>

\* fmt.Sprintf("%s/%s", a, b)
SprintfSlash(a, b) == a \o <<Slash>> \o b

IndexOfSlash(s) ==
    IF \E i \in 1..Len(s) : s[i] = Slash
    THEN CHOOSE i \in 1..Len(s) : s[i] = Slash /\ \A j \in 1..(i - 1) : s[j] # Slash
    ELSE 0

RECURSIVE Split(_)
\* strings.Split(s, "/")
Split(s) ==
    LET i == IndexOfSlash(s)
    IN  IF i = 0 THEN <<s>>
        ELSE <<SubSeq(s, 1, i - 1)>> \o Split(SubSeq(s, i + 1, Len(s)))

-----------------------------------------------------------------------------
(* Pointers and the framework's types.String *)

NilPtr == [nil |-> TRUE, v |-> EmptyString]
Ptr(s) == [nil |-> FALSE, v |-> s]

StringNull == [null |-> TRUE, v |-> EmptyString]
StringValue(s) == [null |-> FALSE, v |-> s]
ValueString(x) == IF x.null THEN EmptyString ELSE x.v
ValueStringPointer(x) == IF x.null THEN NilPtr ELSE Ptr(x.v)

-----------------------------------------------------------------------------
(* JSON values and byte strings *)

NoMap == << >>
JNull == [t |-> "null", s |-> EmptyString, m |-> NoMap]
JNumber == [t |-> "number", s |-> EmptyString, m |-> NoMap]
JArray == [t |-> "array", s |-> EmptyString, m |-> NoMap]
JString(s) == [t |-> "string", s |-> s, m |-> NoMap]
JObject(m) == [t |-> "object", s |-> EmptyString, m |-> m]

\* a byte string: "pretty" is a layout as a person or a server writes it,
\* "compact" is the layout json.Marshal produces
Bytes(valid, form, val) == [valid |-> valid, form |-> form, val |-> val]
Garbage == Bytes(FALSE, "pretty", JNull)
EmptyBytes == Bytes(FALSE, "compact", JNull)
Pretty(val) == Bytes(TRUE, "pretty", val)

\* json.Marshal(v)
Marshal(val) == Bytes(TRUE, "compact", val)

\* json.Unmarshal(b, &m) with m a nil map[string]interface{}: err is set for
\* invalid JSON and for a top level that is neither an object nor null; JSON
\* null is accepted and leaves the map nil.
Unmarshal(b) ==
    IF ~b.valid THEN [err |-> TRUE, isNil |-> TRUE, m |-> NoMap]
    ELSE IF b.val.t = "object" THEN [err |-> FALSE, isNil |-> FALSE, m |-> b.val.m]
    ELSE IF b.val.t = "null" THEN [err |-> FALSE, isNil |-> TRUE, m |-> NoMap]
    ELSE [err |-> TRUE, isNil |-> TRUE, m |-> NoMap]

\* m[key] = v on a map
MapSet(m, key, v) == [k \in (DOMAIN m) \cup {key} |-> IF k = key THEN v ELSE m[k]]

\* v, ok := m[key]
HasKey(u, key) == ~u.isNil /\ key \in DOMAIN u.m

\* m[key].(string): panics unless the key is present with a string value
IsStringAt(u, key) == HasKey(u, key) /\ u.m[key].t = "string"

\* fmt.Sprintf("%s", v) for a decoded JSON value
SprintfS(v) ==
    IF v.t = "string" THEN v.s ELSE <<BadVerb>>

\* hex.EncodeToString(sha256.Sum256(b)): injective on the byte strings of the model
Sha256Hex(b) == [sha256 |-> b]
HashNull == [null |-> TRUE, v |-> Sha256Hex(EmptyBytes)]
HashValue(h) == [null |-> FALSE, v |-> h]

-----------------------------------------------------------------------------
(* The provider's configuration and the documents on disk *)

\* ProviderSettings.FhirBaseUrl, the configured default base URL
DefaultBase == <<"http://default">>
OtherBase == <<"http://other">>
ProviderSettings == [FhirBaseUrl |-> DefaultBase]

Patient == <<"Patient">>
Observation == <<"Observation">>
OperationOutcome == <<"OperationOutcome">>

Obj1(k, v) == JObject([x \in {k} |-> v])
Obj2(k1, v1, k2, v2) == JObject([x \in {k1, k2} |-> IF x = k1 THEN v1 ELSE v2])
Record(type, id) == Obj2("resourceType", JString(type), "id", JString(id))

\* what os.Open and io.ReadAll give for each path: open fails, the read
\* fails (a directory opens and then cannot be read), or the bytes
File(open, read, bytes) == [open |-> open, read |-> read, bytes |-> bytes]
FileSystem ==
    (<<"patient.json">> :> File(TRUE, TRUE, Pretty(Obj1("resourceType", JString(Patient)))))
    @@ (<<"patient-copy.json">> :> File(TRUE, TRUE, Pretty(Obj1("resourceType", JString(Patient)))))
    @@ (<<"patient-id.json">> :> File(TRUE, TRUE, Pretty(Record(Patient, <<"9">>))))
    @@ (<<"no-type.json">> :> File(TRUE, TRUE, Pretty(Obj1("id", JString(<<"9">>)))))
    @@ (<<"empty-type.json">> :> File(TRUE, TRUE, Pretty(Obj1("resourceType", JString(EmptyString)))))
    @@ (<<"number-type.json">> :> File(TRUE, TRUE, Pretty(Obj1("resourceType", JNumber))))
    @@ (<<"array.json">> :> File(TRUE, TRUE, Pretty(JArray)))
    @@ (<<"null.json">> :> File(TRUE, TRUE, Pretty(JNull)))
    @@ (<<"garbage.json">> :> File(TRUE, TRUE, Garbage))
    @@ (<<"directory">> :> File(TRUE, FALSE, EmptyBytes))
    @@ (EmptyString :> File(FALSE, FALSE, EmptyBytes))
Paths == DOMAIN FileSystem

\* the diagnostics a handler adds, named after the failure they report
NoDiags == << >>

\* readFileContent(filePath, diag): the bytes, or nil after adding a diagnostic
readFileContent(filePath) ==
    LET f == FileSystem[filePath]
    IN  IF ~f.open THEN [isNil |-> TRUE, bytes |-> EmptyBytes, diags |-> <<"FileError">>]
        ELSE IF ~f.read THEN [isNil |-> TRUE, bytes |-> EmptyBytes, diags |-> <<"FileError">>]
        ELSE [isNil |-> FALSE, bytes |-> f.bytes, diags |-> NoDiags]

-----------------------------------------------------------------------------
(* HTTP requests and replies *)

Request(method, url, body) == [method |-> method, url |-> url, body |-> body]
NoRequest == Request("", EmptyString, EmptyBytes)

\* http.NewRequest fails when net/url cannot parse the URL: a control
\* character, or a "%" that does not start a two-digit hex escape
NewRequestFails(url) == \E i \in 1..Len(url) : url[i] \in {CTL, BadVerb}

\* what Client.Do and io.ReadAll hand back: err is Client.Do's error, status
\* the response's Status, body the bytes io.ReadAll returned and readErr
\* whether io.ReadAll also returned an error
Reply(err, status, body, readErr) ==
    [err |-> err, status |-> status, body |-> body, readErr |-> readErr]
TransportFailure == Reply(TRUE, EmptyString, EmptyBytes, FALSE)
NoReply == TransportFailure

\* postResponse.Status[0] != '2'
StatusIsFailure(status) == status[1] # "2"

-----------------------------------------------------------------------------
(* persistFhirResource *)

\* if settings.FhirBaseUrl != nil { baseUrl = *settings.FhirBaseUrl }: the
\* pointer is loaded once for the test (ptrCheck) and once for the
\* dereference (ptrDeref); dereferencing nil panics
ResolveBaseUrl(ptrCheck, ptrDeref) ==
    IF ptrCheck.nil THEN [panic |-> FALSE, baseUrl |-> ProviderSettings.FhirBaseUrl]
    ELSE IF ptrDeref.nil THEN [panic |-> TRUE, baseUrl |-> EmptyString]
    ELSE [panic |-> FALSE, baseUrl |-> ptrDeref.v]

\* parts := strings.Split(*resourceId, "/"); parts[len(parts)-1]
BareId(resourceId) == LET parts == Split(resourceId) IN parts[Len(parts)]

\* the request method chosen for a nil or a non-nil resourceId
PersistMethod(resourceId) == IF resourceId.nil THEN "POST" ELSE "PUT"

Prepared(diags, panic, sent, req, resourceType) ==
    [diags |-> diags, panic |-> panic, sent |-> sent, req |-> req,
     resourceTypeStr |-> resourceType]

\* persistFhirResource's loading of the document: readFileContent,
\* json.Unmarshal and the lookup of resourceType; ok is false after a
\* diagnostic was added and (nil, nil, nil) returned
LoadDocument(filePath) ==
    LET fileContent == readFileContent(filePath)
        fileContentJson == Unmarshal(fileContent.bytes)
        Loaded(diags, ok, type) ==
            [diags |-> diags, ok |-> ok, fileContent |-> fileContent.bytes,
             fileContentJson |-> fileContentJson, resourceTypeStr |-> type]
    IN  IF fileContent.isNil THEN Loaded(fileContent.diags, FALSE, EmptyString)
        ELSE IF fileContentJson.err THEN Loaded(<<"ParseError">>, FALSE, EmptyString)
        ELSE IF ~HasKey(fileContentJson, "resourceType") THEN Loaded(<<"SchemaError">>, FALSE, EmptyString)
        ELSE Loaded(NoDiags, TRUE, SprintfS(fileContentJson.m["resourceType"]))

\* persistFhirResource up to the call of Client.Do: filePath, ptrCheck and
\* ptrDeref are what the reads of fhirResource.fhirResourceSettings gave.
\* sent says that Client.Do is called with req.
PersistRequest(filePath, ptrCheck, ptrDeref, resourceId) ==
    LET doc == LoadDocument(filePath)
        base == ResolveBaseUrl(ptrCheck, ptrDeref)
        url == IF resourceId.nil THEN SprintfSlash(base.baseUrl, doc.resourceTypeStr)
               ELSE SprintfSlash(base.baseUrl, resourceId.v)
        requestBody ==
            IF resourceId.nil THEN doc.fileContent
            ELSE Marshal(JObject(MapSet(doc.fileContentJson.m, "id", JString(BareId(resourceId.v)))))
    IN  IF ~doc.ok THEN Prepared(doc.diags, FALSE, FALSE, NoRequest, EmptyString)
        ELSE IF base.panic THEN Prepared(NoDiags, TRUE, FALSE, NoRequest, doc.resourceTypeStr)
        ELSE IF NewRequestFails(url) THEN Prepared(<<"RequestError">>, FALSE, FALSE, NoRequest, doc.resourceTypeStr)
        ELSE Prepared(NoDiags, FALSE, TRUE,
                      Request(PersistMethod(resourceId), url, requestBody), doc.resourceTypeStr)

\* a retry: the prepared request handed to Client.Do a second time
RequestsOfRetry(pre) == IF pre.sent THEN <<pre.req, pre.req>> ELSE << >>

\* the requests an invocation hands to Client.Do: the prepared one, once
RequestsOf(pre) == IF pre.sent THEN <<pre.req>> ELSE << >>

Persisted(diags, panic, requests, body, json, resourceType) ==
    [diags |-> diags, panic |-> panic, requests |-> requests, body |-> body,
     responseJson |-> json, resourceTypeStr |-> resourceType]
NilJson == [err |-> FALSE, isNil |-> TRUE, m |-> NoMap]

\* persistFhirResource from Client.Do on: what it returns as (body,
\* responseJson, &resourceTypeStr), responseJson nil on every failure. The
\* error of io.ReadAll is discarded (body, _ := io.ReadAll(..)).
PersistResponse(pre, reply) ==
    LET responseJson == Unmarshal(reply.body)
    IN  IF ~pre.sent
        THEN Persisted(pre.diags, pre.panic, RequestsOf(pre), EmptyBytes, NilJson, EmptyString)
        ELSE IF reply.err
        THEN Persisted(<<"TransportError">>, FALSE, RequestsOf(pre), EmptyBytes, NilJson, EmptyString)
        ELSE IF StatusIsFailure(reply.status)
        THEN Persisted(<<"RemoteError">>, FALSE, RequestsOf(pre), EmptyBytes, NilJson, EmptyString)
        ELSE IF responseJson.err
        THEN Persisted(<<"ResponseParseError">>, FALSE, RequestsOf(pre), EmptyBytes, NilJson, EmptyString)
        ELSE Persisted(NoDiags, FALSE, RequestsOf(pre), reply.body, responseJson, pre.resourceTypeStr)

-----------------------------------------------------------------------------
(* ReadFhirResource *)

\* ReadFhirResource up to the call of Client.Do
ReadRequest(providerSettings, resourceId) ==
    LET url == SprintfSlash(providerSettings.FhirBaseUrl, resourceId)
    IN  IF NewRequestFails(url) THEN Prepared(<<"RequestError">>, FALSE, FALSE, NoRequest, EmptyString)
        ELSE Prepared(NoDiags, FALSE, TRUE, Request("GET", url, EmptyBytes), EmptyString)

\* ReadFhirResource from Client.Do on: (body, shouldReturn). The error of
\* io.ReadAll is discarded.
ReadFhirResource(pre, reply) ==
    IF ~pre.sent
    THEN [diags |-> pre.diags, requests |-> RequestsOf(pre), body |-> EmptyBytes, shouldReturn |-> TRUE]
    ELSE IF reply.err
    THEN [diags |-> <<"TransportError">>, requests |-> RequestsOf(pre), body |-> EmptyBytes, shouldReturn |-> TRUE]
    ELSE IF StatusIsFailure(reply.status)
    THEN [diags |-> <<"RemoteError">>, requests |-> RequestsOf(pre), body |-> EmptyBytes, shouldReturn |-> TRUE]
    ELSE [diags |-> NoDiags, requests |-> RequestsOf(pre), body |-> reply.body, shouldReturn |-> FALSE]

-----------------------------------------------------------------------------
(* The handlers of FhirResource and FhirResourceDataSource *)

\* FhirResourceModel as the host stores it; exists is whether the host holds
\* state for the resource. file_sha256 is passed through and never read.
Model(exists, filePath, baseUrl, resourceId, sha) ==
    [exists |-> exists, FilePath |-> filePath, FhirBaseUrl |-> baseUrl,
     ResourceId |-> resourceId, ResponseSha256 |-> sha]
NoState == Model(FALSE, StringNull, StringNull, StringNull, HashNull)

\* r.fhirResourceSettings = FhirResourceSettings{FhirResourceFilePath: .., FhirBaseUrl: ..}
Settings(data) ==
    [FhirResourceFilePath |-> ValueString(data.FilePath),
     FhirBaseUrl |-> ValueStringPointer(data.FhirBaseUrl)]

\* what a handler leaves behind: its diagnostics, whether it panicked, the
\* requests it issued, whether it called resp.State.Set and with what
Result(diags, panic, requests, set, model) ==
    [diags |-> diags, panic |-> panic, requests |-> requests, set |-> set, model |-> model]

\* FhirResource.Create after the assignment of r.fhirResourceSettings
CreateHandler(data, pre, reply) ==
    LET p == PersistResponse(pre, reply)
    IN  IF p.responseJson.isNil THEN Result(p.diags, p.panic, p.requests, FALSE, data)
        ELSE IF ~IsStringAt(p.responseJson, "id") THEN Result(p.diags, TRUE, p.requests, FALSE, data)
        ELSE Result(p.diags, FALSE, p.requests, TRUE,
                 [data EXCEPT !.exists = TRUE,
                              !.ResourceId = StringValue(SprintfSlash(p.resourceTypeStr, p.responseJson.m["id"].s)),
                              !.ResponseSha256 = HashValue(Sha256Hex(p.body))])

\* an Update that rebuilds the identifier from the reply's resourceType
UpdateHandlerTypeFromReply(prior, data, pre, reply) ==
    LET p == PersistResponse(pre, reply)
    IN  IF p.responseJson.isNil THEN Result(p.diags, p.panic, p.requests, FALSE, prior)
        ELSE IF ~IsStringAt(p.responseJson, "id") \/ ~IsStringAt(p.responseJson, "resourceType")
        THEN Result(p.diags, TRUE, p.requests, FALSE, prior)
        ELSE Result(p.diags, FALSE, p.requests, TRUE,
                 [prior EXCEPT !.ResourceId = StringValue(SprintfSlash(p.responseJson.m["resourceType"].s,
                                                                        p.responseJson.m["id"].s)),
                               !.ResponseSha256 = HashValue(Sha256Hex(p.body)),
                               !.FilePath = data.FilePath])

\* an Update that fingerprints the re-encoded parsed reply, not the bytes read
UpdateHandlerHashOfParsed(prior, data, pre, reply) ==
    LET p == PersistResponse(pre, reply)
    IN  IF p.responseJson.isNil THEN Result(p.diags, p.panic, p.requests, FALSE, prior)
        ELSE IF ~IsStringAt(p.responseJson, "id") THEN Result(p.diags, TRUE, p.requests, FALSE, prior)
        ELSE Result(p.diags, FALSE, p.requests, TRUE,
                 [prior EXCEPT !.ResourceId = StringValue(SprintfSlash(p.resourceTypeStr, p.responseJson.m["id"].s)),
                               !.ResponseSha256 = HashValue(Sha256Hex(Marshal(JObject(p.responseJson.m)))),
                               !.FilePath = data.FilePath])

\* FhirResource.Update after the assignment of r.fhirResourceSettings
UpdateHandler(prior, data, pre, reply) ==
    LET p == PersistResponse(pre, reply)
    IN  IF p.responseJson.isNil THEN Result(p.diags, p.panic, p.requests, FALSE, prior)
        ELSE IF ~IsStringAt(p.responseJson, "id") THEN Result(p.diags, TRUE, p.requests, FALSE, prior)
        ELSE Result(p.diags, FALSE, p.requests, TRUE,
                 [prior EXCEPT !.ResourceId = StringValue(SprintfSlash(p.resourceTypeStr, p.responseJson.m["id"].s)),
                               !.ResponseSha256 = HashValue(Sha256Hex(p.body)),
                               !.FilePath = data.FilePath])

\* FhirResource.Read after the assignment of r.fhirResourceSettings
ReadHandler(data, pre, reply) ==
    LET r == ReadFhirResource(pre, reply)
        responseJson == Unmarshal(r.body)
    IN  IF r.shouldReturn THEN Result(r.diags, FALSE, r.requests, FALSE, data)
        ELSE IF responseJson.err THEN Result(<<"ResponseParseError">>, FALSE, r.requests, FALSE, data)
        ELSE IF ~IsStringAt(responseJson, "id") \/ ~IsStringAt(responseJson, "resourceType")
        THEN Result(NoDiags, TRUE, r.requests, FALSE, data)
        ELSE Result(NoDiags, FALSE, r.requests, TRUE,
                 [data EXCEPT !.ResourceId = StringValue(SprintfSlash(responseJson.m["resourceType"].s,
                                                                       responseJson.m["id"].s)),
                              !.ResponseSha256 = HashValue(Sha256Hex(r.body))])

\* FhirResource.Delete up to the call of Client.Do
DeleteRequest(data, ptrCheck, ptrDeref) ==
    LET base == ResolveBaseUrl(ptrCheck, ptrDeref)
        url == SprintfSlash(base.baseUrl, ValueString(data.ResourceId))
    IN  IF base.panic THEN Prepared(NoDiags, TRUE, FALSE, NoRequest, EmptyString)
        ELSE IF NewRequestFails(url) THEN Prepared(<<"RequestError">>, FALSE, FALSE, NoRequest, EmptyString)
        ELSE Prepared(NoDiags, FALSE, TRUE, Request("DELETE", url, EmptyBytes), EmptyString)

\* FhirResource.Delete from Client.Do on; it never calls resp.State.Set
DeleteHandler(data, pre, reply) ==
    IF ~pre.sent THEN Result(pre.diags, pre.panic, RequestsOf(pre), FALSE, data)
    ELSE IF reply.err THEN Result(<<"TransportError">>, FALSE, RequestsOf(pre), FALSE, data)
    ELSE IF StatusIsFailure(reply.status) THEN Result(<<"RemoteError">>, FALSE, RequestsOf(pre), FALSE, data)
    ELSE Result(NoDiags, FALSE, RequestsOf(pre), FALSE, data)

\* FhirResourceDataSource.Read: model is the new value of data.Resource
DataSourceReadHandler(pre, reply) ==
    LET r == ReadFhirResource(pre, reply)
    IN  IF r.shouldReturn THEN Result(r.diags, FALSE, r.requests, FALSE, EmptyBytes)
        ELSE Result(NoDiags, FALSE, r.requests, TRUE, r.body)

-----------------------------------------------------------------------------
(* The environment: the FHIR servers behind Client.Do *)

Servers == {DefaultBase, OtherBase}
\* the ids a server assigns to the records it creates
ServerIds == {<<"1">>, <<"2">>}

\* the servers a URL reaches; any other URL makes Client.Do fail
Route(url) ==
    {b \in Servers : /\ Len(url) > Len(b)
                     /\ SubSeq(url, 1, Len(b)) = b
                     /\ url[Len(b) + 1] = Slash}
PathOf(url, b) == SubSeq(url, Len(b) + 2, Len(url))

IsSegment(s) == s # EmptyString /\ \A i \in 1..Len(s) : s[i] # Slash
Stored(type, id) == [resourceType |-> type, id |-> id]
Found(store, path) == {rec \in store : SprintfSlash(rec.resourceType, rec.id) = path}

Ok(status, body) == Reply(FALSE, status, body, FALSE)
Served(reply, store) == [reply |-> reply, store |-> store]
NotFound == Ok(<<"4", "0", "4">>, Pretty(Obj1("resourceType", JString(OperationOutcome))))
BadRequest == Ok(<<"4", "0", "0">>, Pretty(Obj1("resourceType", JString(OperationOutcome))))

\* a server that stores what it is sent and returns the stored record with
\* its resourceType and id
ServerReplies(req, path, store) ==
    LET u == Unmarshal(req.body)
    IN  IF req.method = "POST"
        THEN IF /\ ~u.err
                /\ IsStringAt(u, "resourceType")
                /\ IsSegment(path)
                /\ u.m["resourceType"].s = path
             THEN {Served(Ok(<<"2", "0", "1">>, Pretty(Record(path, i))),
                          store \cup {Stored(path, i)}) : i \in ServerIds}
             ELSE {Served(BadRequest, store)}
        ELSE IF req.method = "PUT"
        THEN IF /\ ~u.err
                /\ IsStringAt(u, "resourceType") /\ IsStringAt(u, "id")
                /\ IsSegment(u.m["resourceType"].s) /\ IsSegment(u.m["id"].s)
                /\ SprintfSlash(u.m["resourceType"].s, u.m["id"].s) = path
             THEN {Served(Ok(<<"2", "0", "0">>, Pretty(Record(u.m["resourceType"].s, u.m["id"].s))),
                          store \cup {Stored(u.m["resourceType"].s, u.m["id"].s)})}
             ELSE {Served(BadRequest, store)}
        ELSE IF req.method = "GET"
        THEN IF Found(store, path) # {}
             THEN {Served(Ok(<<"2", "0", "0">>, Pretty(Record(rec.resourceType, rec.id))), store) :
                      rec \in Found(store, path)}
             ELSE {Served(NotFound, store)}
        ELSE IF Found(store, path) # {}
             THEN {Served(Ok(<<"2", "0", "4">>, EmptyBytes), store \ Found(store, path))}
             ELSE {Served(NotFound, store)}

\* replies of a server, a proxy or a network that does anything else
ReplyBodies ==
    { Garbage,
      Pretty(JNull),
      Pretty(Obj1("resourceType", JString(Patient))),
      Pretty(Obj1("id", JString(<<"1">>))),
      Pretty(Obj2("resourceType", JString(Patient), "id", JNumber)),
      Pretty(Record(Observation, <<"1">>)) }
OtherReplies ==
    {TransportFailure}
    \cup {Ok(<<"2", "0", "0">>, b) : b \in ReplyBodies}
    \cup {Reply(FALSE, <<"2", "0", "0">>, b, TRUE) : b \in {Garbage, Pretty(Record(Patient, <<"1">>))}}
    \cup {Ok(<<"5", "0", "0">>, Garbage)}

Outcome(reply, rem, faithful) == [reply |-> reply, remote |-> rem, faithful |-> faithful]

\* what Client.Do can give for a prepared request, and what the servers
\* store afterwards; faithful marks the replies of ServerReplies
EnvOutcomes(pre, rem) ==
    IF ~pre.sent THEN {Outcome(NoReply, rem, TRUE)}
    ELSE IF Route(pre.req.url) = {} THEN {Outcome(TransportFailure, rem, TRUE)}
    ELSE LET b == CHOOSE x \in Route(pre.req.url) : TRUE
             served == ServerReplies(pre.req, PathOf(pre.req.url, b), rem[b])
         IN  {Outcome(sv.reply, [rem EXCEPT ![b] = sv.store], TRUE) : sv \in served}
             \cup {Outcome(r, rem, FALSE) : r \in OtherReplies \ {sv.reply : sv \in served}}

-----------------------------------------------------------------------------
(* The host: one resource, one handler at a time *)

\* the values of fhir_base_url a configuration can hold
Overrides == {StringNull, StringValue(EmptyString), StringValue(OtherBase), StringValue(<<CTL>>)}
\* the identifiers a user imports
ImportIds ==
    { <<"Patient">>,
      <<"Patient", Slash, "1">>,
      <<"Patient", Slash, "1", Slash, "2">> }

Call(op, data, prior, reply, faithful, r) ==
    [op |-> op, data |-> data, prior |-> prior, reply |-> reply, faithful |-> faithful,
     diags |-> r.diags, panic |-> r.panic, requests |-> r.requests, set |-> r.set]
NoCall == Call("none", NoState, NoState, NoReply, TRUE, Result(NoDiags, FALSE, << >>, FALSE, NoState))

Init ==
    /\ fhirResourceSettings = [FhirResourceFilePath |-> EmptyString, FhirBaseUrl |-> NilPtr]
    /\ state = NoState
    /\ dsState = EmptyBytes
    /\ remote = [b \in Servers |-> {}]
    /\ call = NoCall
    /\ calls = 0
    /\ inv = << >>

\* resource.ImportStatePassthroughID(ctx, path.Root("resource_id"), req, resp)
ImportState(id) ==
    /\ calls < MaxCalls
    /\ ~state.exists
    /\ state' = Model(TRUE, StringNull, StringNull, StringValue(id), HashNull)
    /\ call' = Call("ImportState", state', state, NoReply, TRUE, Result(NoDiags, FALSE, << >>, TRUE, state'))
    /\ calls' = calls + 1
    /\ UNCHANGED <<fhirResourceSettings, dsState, remote, inv>>

Create(filePath, override) ==
    /\ calls < MaxCalls
    /\ ~state.exists
    /\ \E data \in {Model(FALSE, StringValue(filePath), override, StringNull, HashNull)} :
          /\ fhirResourceSettings' = Settings(data)
          /\ \E pre \in {PersistRequest(fhirResourceSettings'.FhirResourceFilePath,
                                        fhirResourceSettings'.FhirBaseUrl,
                                        fhirResourceSettings'.FhirBaseUrl, NilPtr)} :
                \E o \in EnvOutcomes(pre, remote) :
                   \E r \in {CreateHandler(data, pre, o.reply)} :
                      /\ remote' = o.remote
                      /\ state' = IF r.set THEN r.model ELSE state
                      /\ call' = Call("Create", data, state, o.reply, o.faithful, r)
    /\ calls' = calls + 1
    /\ UNCHANGED <<dsState, inv>>

Read ==
    /\ calls < MaxCalls
    /\ state.exists
    /\ \E data \in {state} :
          /\ fhirResourceSettings' = Settings(data)
          /\ \E pre \in {ReadRequest(ProviderSettings, ValueString(data.ResourceId))} :
                \E o \in EnvOutcomes(pre, remote) :
                   \E r \in {ReadHandler(data, pre, o.reply)} :
                      /\ remote' = o.remote
                      /\ state' = IF r.set THEN r.model ELSE state
                      /\ call' = Call("Read", data, state, o.reply, o.faithful, r)
    /\ calls' = calls + 1
    /\ UNCHANGED <<dsState, inv>>

Update(filePath, override) ==
    /\ calls < MaxCalls
    /\ state.exists
    /\ \E data \in {Model(TRUE, StringValue(filePath), override, StringNull, HashNull)} :
          /\ fhirResourceSettings' = Settings(data)
          /\ \E pre \in {PersistRequest(fhirResourceSettings'.FhirResourceFilePath,
                                        fhirResourceSettings'.FhirBaseUrl,
                                        fhirResourceSettings'.FhirBaseUrl,
                                        ValueStringPointer(state.ResourceId))} :
                \E o \in EnvOutcomes(pre, remote) :
                   \E r \in {UpdateHandler(state, data, pre, o.reply)} :
                      /\ remote' = o.remote
                      /\ state' = IF r.set THEN r.model ELSE state
                      /\ call' = Call("Update", data, state, o.reply, o.faithful, r)
    /\ calls' = calls + 1
    /\ UNCHANGED <<dsState, inv>>

\* the host drops the state of a resource whose Delete reported no error
Delete ==
    /\ calls < MaxCalls
    /\ state.exists
    /\ \E data \in {state} :
          /\ fhirResourceSettings' = Settings(data)
          /\ \E pre \in {DeleteRequest(data, fhirResourceSettings'.FhirBaseUrl,
                                       fhirResourceSettings'.FhirBaseUrl)} :
                \E o \in EnvOutcomes(pre, remote) :
                   \E r \in {DeleteHandler(data, pre, o.reply)} :
                      /\ remote' = o.remote
                      /\ state' = IF r.diags = NoDiags /\ ~r.panic THEN NoState ELSE state
                      /\ call' = Call("Delete", data, state, o.reply, o.faithful, r)
    /\ calls' = calls + 1
    /\ UNCHANGED <<dsState, inv>>

DataSourceRead(id) ==
    /\ calls < MaxCalls
    /\ \E pre \in {ReadRequest(ProviderSettings, id)} :
          \E o \in EnvOutcomes(pre, remote) :
             \E r \in {DataSourceReadHandler(pre, o.reply)} :
                /\ remote' = o.remote
                /\ dsState' = IF r.set THEN r.model ELSE dsState
                /\ call' = Call("DataSourceRead",
                                Model(FALSE, StringNull, StringNull, StringValue(id), HashNull),
                                state, o.reply, o.faithful, r)
    /\ calls' = calls + 1
    /\ UNCHANGED <<fhirResourceSettings, state, inv>>

Next ==
    \/ \E id \in ImportIds : ImportState(id)
    \/ \E f \in Paths, o \in Overrides : Create(f, o)
    \/ Read
    \/ \E f \in Paths, o \in Overrides : Update(f, o)
    \/ Delete
    \/ \E id \in ImportIds : DataSourceRead(id)

Spec == Init /\ [][Next]_vars

\* A resource the host already holds under an imported identifier, and then
\* nothing but Updates of it
UpdateInit ==
    /\ fhirResourceSettings = [FhirResourceFilePath |-> EmptyString, FhirBaseUrl |-> NilPtr]
    /\ \E id \in ImportIds :
          /\ state = Model(TRUE, StringNull, StringNull, StringValue(id), HashNull)
          /\ call = Call("ImportState", state, NoState, NoReply, TRUE,
                         Result(NoDiags, FALSE, << >>, TRUE, state))
    /\ dsState = EmptyBytes
    /\ remote = [b \in Servers |-> {}]
    /\ calls = 0
    /\ inv = << >>

UpdateNext == \E f \in Paths, o \in Overrides : Update(f, o)

UpdateSpec == UpdateInit /\ [][UpdateNext]_vars

-----------------------------------------------------------------------------
(* Concurrent invocations on one FhirResource: the host calls the handlers *)
(* of a single FhirResource value from several goroutines, one per         *)
(* resource of the configuration. Each access to r.fhirResourceSettings is *)
(* a step of its own; nothing in the code orders the accesses.             *)

Procs == 1..NumProcs
Ops == {"Create", "Read", "Update", "Delete"}
ConcPaths == {<<"patient.json">>, <<"patient-id.json">>, <<"garbage.json">>}
ConcOverrides == {StringNull, StringValue(OtherBase)}
ConcIds == {<<"Patient", Slash, "1">>, <<"Patient", Slash, "2">>}

\* the locals of one invocation: data is the plan (Create, Update) or the
\* prior state (Read, Delete), prior the prior state; filePath, ptrCheck and
\* ptrDeref are what it has read from r.fhirResourceSettings so far
Invocation(pc, op, data, prior, filePath, ptrCheck, ptrDeref, r) ==
    [pc |-> pc, op |-> op, data |-> data, prior |-> prior, filePath |-> filePath,
     ptrCheck |-> ptrCheck, ptrDeref |-> ptrDeref,
     diags |-> r.diags, panic |-> r.panic, requests |-> r.requests, set |-> r.set]
NoResult == Result(NoDiags, FALSE, << >>, FALSE, NoState)
Idle == Invocation("idle", "none", NoState, NoState, EmptyString, NilPtr, NilPtr, NoResult)

ConcInit ==
    /\ fhirResourceSettings = [FhirResourceFilePath |-> EmptyString, FhirBaseUrl |-> NilPtr]
    /\ state = NoState
    /\ dsState = EmptyBytes
    /\ remote = [b \in Servers |-> {}]
    /\ call = NoCall
    /\ calls = 0
    /\ inv = [p \in Procs |-> Idle]

\* the host calls a handler: req.Plan.Get / req.State.Get fill the locals
Begin(p, op, filePath, override, id) ==
    /\ inv[p].pc = "idle"
    /\ LET prior == IF op = "Create" THEN NoState
                    ELSE Model(TRUE, StringValue(filePath), override, StringValue(id), HashNull)
           data == IF op = "Create"
                   THEN Model(FALSE, StringValue(filePath), override, StringNull, HashNull)
                   ELSE prior
       IN  inv' = [inv EXCEPT ![p] = Invocation("assignFilePath", op, data, prior,
                                                EmptyString, NilPtr, NilPtr, NoResult)]
    /\ UNCHANGED <<fhirResourceSettings, state, dsState, remote, call, calls>>

\* r.fhirResourceSettings = FhirResourceSettings{..}: the store of the first field
AssignFilePath(p) ==
    /\ inv[p].pc = "assignFilePath"
    /\ fhirResourceSettings' =
          [fhirResourceSettings EXCEPT !.FhirResourceFilePath = Settings(inv[p].data).FhirResourceFilePath]
    /\ inv' = [inv EXCEPT ![p].pc = "assignBaseUrl"]
    /\ UNCHANGED <<state, dsState, remote, call, calls>>

\* the store of the second field; Read goes on to ReadFhirResource, Delete to
\* its base URL, Create and Update to persistFhirResource
AssignBaseUrl(p) ==
    /\ inv[p].pc = "assignBaseUrl"
    /\ fhirResourceSettings' =
          [fhirResourceSettings EXCEPT !.FhirBaseUrl = Settings(inv[p].data).FhirBaseUrl]
    /\ inv' = [inv EXCEPT ![p].pc = IF inv[p].op = "Read" THEN "send"
                                    ELSE IF inv[p].op = "Delete" THEN "checkBaseUrl"
                                    ELSE "readFile"]
    /\ UNCHANGED <<state, dsState, remote, call, calls>>

\* the prepared request of an invocation, from what it has read so far
PreparedOf(i) ==
    IF i.op = "Read" THEN ReadRequest(ProviderSettings, ValueString(i.data.ResourceId))
    ELSE IF i.op = "Delete" THEN DeleteRequest(i.data, i.ptrCheck, i.ptrDeref)
    ELSE PersistRequest(i.filePath, i.ptrCheck, i.ptrDeref,
                        IF i.op = "Create" THEN NilPtr ELSE ValueStringPointer(i.prior.ResourceId))

\* the handler's result for a prepared request and a reply
HandlerOf(i, pre, reply) ==
    IF i.op = "Create" THEN CreateHandler(i.data, pre, reply)
    ELSE IF i.op = "Update" THEN UpdateHandler(i.prior, i.data, pre, reply)
    ELSE IF i.op = "Read" THEN ReadHandler(i.data, pre, reply)
    ELSE DeleteHandler(i.data, pre, reply)

\* readFileContent(fhirResource.fhirResourceSettings.FhirResourceFilePath, diag)
\* and the checks of the document; a failure ends the invocation
ReadFile(p) ==
    /\ inv[p].pc = "readFile"
    /\ \E i \in {[inv[p] EXCEPT !.filePath = fhirResourceSettings.FhirResourceFilePath]} :
          \E doc \in {LoadDocument(i.filePath)} :
             inv' = [inv EXCEPT ![p] =
                       IF ~doc.ok THEN [i EXCEPT !.pc = "done", !.diags = doc.diags]
                       ELSE [i EXCEPT !.pc = "checkBaseUrl"]]
    /\ UNCHANGED <<fhirResourceSettings, state, dsState, remote, call, calls>>

\* if r.fhirResourceSettings.FhirBaseUrl != nil
CheckBaseUrl(p) ==
    /\ inv[p].pc = "checkBaseUrl"
    /\ inv' = [inv EXCEPT ![p].ptrCheck = fhirResourceSettings.FhirBaseUrl,
                          ![p].ptrDeref = fhirResourceSettings.FhirBaseUrl,
                          ![p].pc = IF fhirResourceSettings.FhirBaseUrl.nil THEN "send" ELSE "derefBaseUrl"]
    /\ UNCHANGED <<fhirResourceSettings, state, dsState, remote, call, calls>>

\* baseUrl = *r.fhirResourceSettings.FhirBaseUrl
DerefBaseUrl(p) ==
    /\ inv[p].pc = "derefBaseUrl"
    /\ inv' = [inv EXCEPT ![p].ptrDeref = fhirResourceSettings.FhirBaseUrl, ![p].pc = "send"]
    /\ UNCHANGED <<fhirResourceSettings, state, dsState, remote, call, calls>>

\* the rest of the handler: the request, Client.Do, the reply, resp.State.Set
Send(p) ==
    /\ inv[p].pc = "send"
    /\ \E pre \in {PreparedOf(inv[p])} :
          \E o \in EnvOutcomes(pre, remote) :
             \E r \in {HandlerOf(inv[p], pre, o.reply)} :
                /\ remote' = o.remote
                /\ inv' = [inv EXCEPT ![p].pc = "done", ![p].diags = r.diags,
                                      ![p].panic = r.panic, ![p].requests = r.requests,
                                      ![p].set = r.set]
    /\ UNCHANGED <<fhirResourceSettings, state, dsState, call, calls>>

ConcNext ==
    \/ \E p \in Procs, op \in Ops, f \in ConcPaths, o \in ConcOverrides, id \in ConcIds :
          Begin(p, op, f, o, id)
    \/ \E p \in Procs : AssignFilePath(p)
    \/ \E p \in Procs : AssignBaseUrl(p)
    \/ \E p \in Procs : ReadFile(p)
    \/ \E p \in Procs : CheckBaseUrl(p)
    \/ \E p \in Procs : DerefBaseUrl(p)
    \/ \E p \in Procs : Send(p)

ConcSpec == ConcInit /\ [][ConcNext]_vars

-----------------------------------------------------------------------------
(* Properties *)

HasSlash(s) == \E i \in 1..Len(s) : s[i] = Slash
BeforeFirstSlash(s) == SubSeq(s, 1, IndexOfSlash(s) - 1)
AfterFirstSlash(s) == SubSeq(s, IndexOfSlash(s) + 1, Len(s))
StartsWith(s, prefix) == Len(s) >= Len(prefix) /\ SubSeq(s, 1, Len(prefix)) = prefix
EndsWith(s, suffix) == Len(s) >= Len(suffix) /\ SubSeq(s, Len(s) - Len(suffix) + 1, Len(s)) = suffix

\* the base-URL rule as the specification words it
RuleBase(override) ==
    IF ~override.null /\ override.v # EmptyString THEN override.v ELSE DefaultBase

Issued(c) == c.requests # << >>
\* the reply is a success status carrying a JSON object
SuccessObject(c) ==
    /\ Issued(c) /\ ~c.reply.err /\ ~StatusIsFailure(c.reply.status)
    /\ c.reply.body.valid /\ c.reply.body.val.t = "object"
ReplyJson(c) == Unmarshal(c.reply.body)
DocumentOf(c) == FileSystem[ValueString(c.data.FilePath)]

\* C1: concurrent invocations on one FhirResource each read the document at
\* their own file path and build their URL from their own base-URL override
\* and identifier; none uses a file path or override supplied to another.
\* (Read is left to C2: it consults no override at all.)
C1_OwnSettings ==
    \A p \in DOMAIN inv :
        LET i == inv[p]
            own == Settings(i.data)
        IN  /\ (i.op \in {"Create", "Update"} /\ i.pc \in {"checkBaseUrl", "derefBaseUrl", "send"})
                    => i.filePath = own.FhirResourceFilePath
            /\ (i.op \in {"Create", "Update", "Delete"} /\ i.pc \in {"derefBaseUrl", "send"})
                    => i.ptrCheck = own.FhirBaseUrl
            /\ (i.op \in {"Create", "Update", "Delete"} /\ i.pc = "send")
                    => i.ptrDeref = own.FhirBaseUrl
            /\ (i.op \in {"Create", "Update", "Delete"} /\ i.pc = "done" /\ Issued(i))
                    => i.requests[1].url =
                         SprintfSlash(IF own.FhirBaseUrl.nil THEN DefaultBase ELSE own.FhirBaseUrl.v,
                                      IF i.op = "Create"
                                      THEN LoadDocument(own.FhirResourceFilePath).resourceTypeStr
                                      ELSE ValueString(i.prior.ResourceId))

\* C2: in Create, Read, Update and Delete the base of the request URL is the
\* per-call override when it is present and non-empty, and the configured
\* default otherwise.
C2_BaseUrlRule ==
    (call.op \in Ops /\ Issued(call))
        => StartsWith(call.requests[1].url, RuleBase(call.data.FhirBaseUrl) \o <<Slash>>)

\* C3: a success reply to Create, Update or Read whose JSON object lacks a
\* string id (for Read: or a string resourceType) ends the operation with a
\* MissingFieldError diagnostic, no state written and no panic.
C3_MissingFieldReported ==
    ( /\ call.op \in {"Create", "Update", "Read"}
      /\ SuccessObject(call)
      /\ \/ ~IsStringAt(ReplyJson(call), "id")
         \/ call.op = "Read" /\ ~IsStringAt(ReplyJson(call), "resourceType") )
        => (call.diags = <<"MissingFieldError">> /\ ~call.set /\ ~call.panic)

\* C4: Update with an existing identifier s that contains a "/" puts into the
\* PUT body, as id, everything after the leftmost "/" of s, so that type
\* prefix + "/" + id is s again, and sends the PUT to {baseUrl}/{s}.
C4_IdAfterFirstSlash ==
    LET s == ValueString(call.prior.ResourceId)
        body == Unmarshal(call.requests[1].body)
    IN  (call.op = "Update" /\ Issued(call) /\ HasSlash(s))
            => /\ IsStringAt(body, "id")
               /\ body.m["id"].s = AfterFirstSlash(s)
               /\ SprintfSlash(BeforeFirstSlash(s), body.m["id"].s) = s
               /\ call.requests[1].method = "PUT"
               /\ EndsWith(call.requests[1].url, <<Slash>> \o s)

\* C5 as claimed: the identifier Update writes takes both its type and its id
\* from the reply (resourceType and id of the parsed body).
C5_TypeFromResponse ==
    (call.op = "Update" /\ call.set)
        => /\ IsStringAt(ReplyJson(call), "resourceType")
           /\ state.ResourceId = StringValue(SprintfSlash(ReplyJson(call).m["resourceType"].s,
                                                           ReplyJson(call).m["id"].s))

\* C5 as amended: the identifier Update writes takes its type from the
\* resourceType of the local document (as %s prints it) and its id from the
\* reply; the reply's resourceType is not consulted.
C5_TypeFromDocument ==
    (call.op = "Update" /\ call.set)
        => /\ IsStringAt(ReplyJson(call), "id")
           /\ state.ResourceId =
                StringValue(SprintfSlash(SprintfS(DocumentOf(call).bytes.val.m["resourceType"]),
                                         ReplyJson(call).m["id"].s))

\* an Update wrote an identifier although the reply names another type than
\* the document does
C5_Witness ==
    /\ call.op = "Update" /\ call.set
    /\ IsStringAt(ReplyJson(call), "resourceType")
    /\ ReplyJson(call).m["resourceType"] # DocumentOf(call).bytes.val.m["resourceType"]

\* C6: a POST or PUT is issued only for a document that can be read, is a
\* JSON object and has a resourceType that is a non-empty string.
C6_RequestOnlyForTypedDocument ==
    (call.op \in {"Create", "Update"} /\ Issued(call))
        => LET f == DocumentOf(call)
           IN  /\ f.open /\ f.read /\ f.bytes.valid
               /\ f.bytes.val.t = "object"
               /\ "resourceType" \in DOMAIN f.bytes.val.m
               /\ f.bytes.val.m["resourceType"].t = "string"
               /\ f.bytes.val.m["resourceType"].s # EmptyString

\* C7: Update with an existing identifier that contains no "/" fails: it
\* reports an error, sends no PUT and writes no identifier or fingerprint.
\* (The kind of the diagnostic, FormatError, is left open here.)
C7_NoSlashFails ==
    (call.op = "Update" /\ ~HasSlash(ValueString(call.prior.ResourceId)))
        => (call.diags # NoDiags /\ ~Issued(call) /\ ~call.set)

\* C8: against a server that stores what it is sent, a Create that succeeds
\* writes the identifier T/{id}, and a Read that follows it with the same
\* configuration succeeds and writes the same identifier.
C8_CreateReadRoundTrip ==
    [][ ( /\ call.op = "Create" /\ call.set /\ call.faithful
          /\ call'.op = "Read" /\ call'.faithful )
        => ( /\ state.ResourceId =
                  StringValue(SprintfSlash(DocumentOf(call).bytes.val.m["resourceType"].s,
                                           ReplyJson(call).m["id"].s))
             /\ call'.set
             /\ state'.ResourceId = state.ResourceId ) ]_vars

\* the failures of C9: the document cannot be loaded or no request can be
\* built, the network fails, the body cannot be read to its end, the status
\* is no success, the body is no JSON object, an expected field is missing
CallFailed(c) ==
    \/ ~Issued(c)
    \/ c.reply.err
    \/ c.reply.readErr
    \/ StatusIsFailure(c.reply.status)
    \/ c.op \in {"Create", "Update", "Read"} /\ ~SuccessObject(c)
    \/ c.op \in {"Create", "Update", "Read"} /\ ~IsStringAt(ReplyJson(c), "id")
    \/ c.op = "Read" /\ ~IsStringAt(ReplyJson(c), "resourceType")

\* C9: every failure of an operation stops it with an error diagnostic, no
\* identifier or fingerprint returned and the host's stored state unchanged.
C9_FailuresAreReported ==
    (call.op \in Ops \cup {"DataSourceRead"} /\ CallFailed(call))
        => (call.diags # NoDiags /\ ~call.panic /\ ~call.set /\ state = call.prior)

MethodOf(op) ==
    IF op = "Create" THEN "POST" ELSE IF op = "Read" THEN "GET"
    ELSE IF op = "Update" THEN "PUT" ELSE "DELETE"
BeforeRequest == {"FileError", "ParseError", "SchemaError", "RequestError"}

\* C10: an invocation of Create, Read, Update or Delete issues at most one
\* request, and exactly one unless loading the document or building the
\* request failed; a transport failure or a failure status is followed by
\* no second request; the method is POST, GET, PUT, DELETE respectively.
C10_OneRequest ==
    call.op \in Ops
        => /\ Len(call.requests) <= 1
           /\ (call.diags = NoDiags \/ call.diags[1] \notin BeforeRequest) => Len(call.requests) = 1
           /\ \A k \in 1..Len(call.requests) : call.requests[k].method = MethodOf(call.op)

\* an Update whose one PUT was answered with a failure status
C10_Witness ==
    /\ call.op = "Update" /\ Len(call.requests) = 1
    /\ ~call.reply.err /\ StatusIsFailure(call.reply.status)
    /\ call.diags = <<"RemoteError">>

\* two consecutive Updates of byte-identical documents under the same
\* base-URL configuration against the same identifier
SameUpdate(c, d) ==
    /\ c.op = "Update" /\ d.op = "Update"
    /\ DocumentOf(c) = DocumentOf(d)
    /\ c.data.FhirBaseUrl = d.data.FhirBaseUrl
    /\ c.prior.ResourceId = d.prior.ResourceId

\* C11: two consecutive Updates with byte-identical documents against the
\* same identifier hand Client.Do identical requests (a PUT to base/identifier
\* whose body carries the same injected id); a server that answers by the
\* request alone answers both alike, and when both get the same answer both
\* write the same identifier and the same fingerprint, each the SHA-256 hex
\* digest of the bytes that call read from its response.
C11_UpdateIdempotent ==
    [][(calls' = calls + 1 /\ SameUpdate(call, call'))
          => /\ call'.requests = call.requests
             /\ \A k \in 1..Len(call.requests) :
                   /\ call.requests[k].method = "PUT"
                   /\ call'.requests[k].url = call.requests[k].url
                   /\ call'.requests[k].body = call.requests[k].body
                   /\ Unmarshal(call'.requests[k].body).m["id"] = Unmarshal(call.requests[k].body).m["id"]
             /\ (call.faithful /\ call'.faithful) => call'.reply = call.reply
             /\ (call'.reply = call.reply)
                   => /\ call'.set = call.set
                      /\ call'.diags = call.diags /\ call'.panic = call.panic
                      /\ call.set
                            => /\ state'.ResourceId = state.ResourceId
                               /\ state'.ResponseSha256 = state.ResponseSha256
                               /\ state.ResponseSha256 = HashValue(Sha256Hex(call.reply.body))
                               /\ state'.ResponseSha256 = HashValue(Sha256Hex(call'.reply.body))]_vars

\* the second of two successful Updates of one document against one
\* identifier: the state the first one wrote is the state the second one writes
C11_Witness ==
    /\ calls = 2
    /\ call.op = "Update" /\ call.set /\ Len(call.requests) = 1
    /\ call.faithful
    /\ ~call.prior.ResponseSha256.null
    /\ ~call.prior.FilePath.null
    /\ FileSystem[ValueString(call.prior.FilePath)] = DocumentOf(call)
    /\ call.prior.ResourceId = state.ResourceId
    /\ call.prior.ResponseSha256 = state.ResponseSha256

====
